---- MODULE Spec2Model ----
(***************************************************************************)
(* A model of src/lib/notion-mcp-server.ts: the StdioClient that speaks    *)
(* line-delimited JSON-RPC with a spawned process (stdout data handler,    *)
(* sendRequest, listTools, getTool) and the module-level lifecycle         *)
(* (initNotionMCPServer, shutdownNotionMCPServer, the exit handler).       *)
(*                                                                         *)
(* Text is modelled as a sequence of fragments.  A fragment is a piece of  *)
(* text that no chunk boundary of the modelled runs cuts:                  *)
(*   Open(i)    {"jsonrpc":"2.0","id":<i>      (NoId: no id member)         *)
(*   Res(v)     ,"result":<v>}                                              *)
(*   Err(m)     ,"error":{"message":<m>}}                                   *)
(*   NL         the newline character                                       *)
(*   SP         a space                                                     *)
(*   TXT        text holding no brace, no newline and no white space        *)
(***************************************************************************)
EXTENDS Integers, Sequences, FiniteSets, TLC

\* ------------------------------------------------------------------ bounds
\* processes spawned in one run of the lifecycle specification
MaxSpawn == 2
\* sendRequest calls on one client
MaxReq == 2
\* lines of the stream fed to the framer
MaxLines == 3
\* status updates made by tool executions during one generateText
MaxToolUpdates == 1

\* ------------------------------------------------------------- fragments
Open(i) == [t |-> "open", v |-> i]
Res(v) == [t |-> "result", v |-> v]
Err(m) == [t |-> "error", v |-> m]
NL == [t |-> "nl", v |-> ""]
SP == [t |-> "sp", v |-> ""]
TXT == [t |-> "text", v |-> ""]

\* the id member of a response: absent (NoId); a string ("0", "1", ..., or
\* the empty string); a number (written "#0", "#1": a number is never equal
\* to a string key of the Map)
NoId == "none"

\* String(n), for the counters the model reaches
IdStr(n) ==
  CASE n = 0 -> "0" [] n = 1 -> "1" [] n = 2 -> "2" [] n = 3 -> "3"
    [] n = 4 -> "4" [] OTHER -> "5"

\* ------------------------------------------------------------ the framer
IsSpace(f) == f.t \in {"nl", "sp"}

RECURSIVE TrimStart(_)
TrimStart(s) ==
  IF s # <<>> /\ IsSpace(s[1]) THEN TrimStart(Tail(s)) ELSE s

RECURSIVE TrimEnd(_)
TrimEnd(s) ==
  IF s # <<>> /\ IsSpace(s[Len(s)]) THEN TrimEnd(SubSeq(s, 1, Len(s) - 1)) ELSE s

\* String.prototype.trim
Trim(s) == TrimEnd(TrimStart(s))

\* String.prototype.split("\n"): the text between the newlines, empty
\* pieces kept
RECURSIVE Split(_)
Split(s) ==
  IF \E i \in 1..Len(s) : s[i] = NL
    THEN LET i == CHOOSE i \in 1..Len(s) :
                    s[i] = NL /\ \A j \in 1..(i - 1) : s[j] # NL
         IN  <<SubSeq(s, 1, i - 1)>> \o Split(SubSeq(s, i + 1, Len(s)))
    ELSE <<s>>

\* message.startsWith("{")
StartsWithBrace(line) == line # <<>> /\ line[1].t = "open"

NotSpace(f) == f.t # "sp"

\* JSON.parse(message): white space between tokens and after the value is
\* allowed; the text must be exactly one object.  ok = FALSE is a SyntaxError.
JSONParse(line) ==
  LET toks == SelectSeq(line, NotSpace)
  IN  IF Len(toks) = 2 /\ toks[1].t = "open" /\ toks[2].t \in {"result", "error"}
        THEN [ok |-> TRUE, id |-> toks[1].v, kind |-> toks[2].t, v |-> toks[2].v]
        ELSE [ok |-> FALSE, id |-> NoId, kind |-> "", v |-> ""]

\* !id of the handler (line 131): undefined, "" and 0 are falsy
Falsy(id) == id \in {NoId, "", "#0"}

\* ------------------------------------------------------------------ state
VARIABLES
  \* module globals (lines 31-32); 0 is null, p > 0 the p-th spawned process
  \* and the client constructed on its pipes
  notionMCPServerProcess, notionMCPClient,
  \* process.env.NOTION_API_KEY is set
  notionApiKey,
  \* the processes: proc[p] = [state, kills, exitHandlers], state one of
  \* "unspawned", "running", "exited", "failed" (the executable could not be
  \* launched; spawn has returned the ChildProcess and its "error" event is
  \* still to come) and "errored" (the "error" event was emitted); kills
  \* counts the kill() calls and exitHandlers the "exit" listeners
  \* registered on it (line 271)
  proc,
  \* the calls of initNotionMCPServer: calls[c] = [pc, result, client, id,
  \* spawned], pc one of "idle", "awaitInfo" (line 244), "awaitList" (line
  \* 250, on request id of client), "returned" (with result) and "threw";
  \* spawned is the process the call spawned (line 59), 0 if none
  calls,
  \* per client: StdioClient.messageId and the keys of StdioClient.messageQueue
  messageId, messageQueue,
  \* per client: the promise of every sendRequest call, by its id, with its
  \* timer and the outcome its caller sees
  req,
  \* per client: the ids sendRequest assigned, in call order
  assigned,
  \* per client: the requests written to the process's stdin (line 232), each
  \* with whether its entry was in the table and its timer armed when it was
  \* written
  stdin,
  \* the framer's input still to be delivered, the whole input, the parsed
  \* responses logged so far (console.debug, line 127) and whether every
  \* chunk so far ended at the end of a line
  stream, orig, parsedLog, aligned,
  \* handleNewAppMention (src/lib/handle-app-mention.ts): the event, the
  \* handler's position, the texts written to the status message in order,
  \* result (line 39), the message of the error caught at line 46 ("" if
  \* none) and the status updates made by tools during generateText
  event, handler, statusTexts, result, caught, toolUpdates

lifeVars == <<notionMCPServerProcess, notionMCPClient, notionApiKey, proc, calls>>
clientVars == <<messageId, messageQueue, req, assigned, stdin>>
framerVars == <<stream, orig, parsedLog, aligned>>
mentionVars == <<event, handler, statusTexts, result, caught, toolUpdates>>
vars == <<lifeVars, clientVars, framerVars, mentionVars>>

Clients == 1..MaxSpawn
Callers == {"a", "b"}

\* ------------------------------------------------------- promises, timers
\* the executor's resolve and reject: the first call settles the promise
PromiseResolve(r, value) ==
  IF r.state = "pending" THEN [r EXCEPT !.state = "resolved", !.value = value] ELSE r

PromiseReject(r, message) ==
  IF r.state = "pending" THEN [r EXCEPT !.state = "rejected", !.value = message] ELSE r

\* a resolution that leaves the timer armed
ClearTimeout_Missing(r) == r

\* clearTimeout(timeoutId)
ClearTimeout(r) ==
  [r EXCEPT !.timer = IF @ = "armed" THEN "cleared" ELSE @]

\* the entry's resolve and reject, as registered by sendRequest
EntryResolve(r, value) == PromiseResolve(ClearTimeout(r), value)

EntryReject(r, message) == PromiseReject(ClearTimeout(r), message)

\* new Error(`Request timed out after 10 seconds: ${method}`).message
TimeoutMessage(method) ==
  CASE method = "tools/list" -> "Request timed out after 10 seconds: tools/list"
    [] method = "tools/call" -> "Request timed out after 10 seconds: tools/call"
    [] OTHER -> "Request timed out after 10 seconds: "

\* ----------------------------------------------------------- the facade
\* listTools without its catch
ListTools_Rethrows(r) == [state |-> r.state, value |-> r.value]

\* what the caller of listTools() sees once the promise of its sendRequest
\* has settled: a rejection is caught and { tools: [] } returned
ListTools(r) ==
  IF r.state = "rejected"
    THEN [state |-> "resolved", value |-> "{tools:[]}"]
    ELSE [state |-> r.state, value |-> r.value]

\* what the caller of getTool(ns, name).call(params) sees: the promise of
\* sendRequest("tools/call", ...) itself
GetToolCall(r) == [state |-> r.state, value |-> r.value]

\* the caller's view of a request, by the operation that was called
Outcome(r) ==
  IF r.state = "pending" THEN [state |-> "pending", value |-> ""]
  ELSE IF r.via = "listTools" THEN ListTools(r)
  ELSE IF r.via = "getTool" THEN GetToolCall(r)
  ELSE [state |-> r.state, value |-> r.value]

Settled(r) == [r EXCEPT !.out = Outcome(r)]

\* ------------------------------------------------ the stdout data handler
\* a handler that settles the request and leaves its entry in the table
Dispatch_KeepsEntry(cl, response) ==
  IF response.id \in cl.queue
    THEN LET r == cl.req[response.id]
             s == IF response.kind = "error"
                    THEN EntryReject(r, response.v)
                    ELSE EntryResolve(r, response.v)
         IN  [cl EXCEPT !.req[response.id] =
                           Settled([s EXCEPT !.byResponse = @ + 1])]
    ELSE cl

\* a handler that never looks at response.error
Dispatch_IgnoresError(cl, response) ==
  IF response.id \in cl.queue
    THEN LET r == cl.req[response.id]
             s == EntryResolve(r, response.v)
         IN  [cl EXCEPT !.queue = @ \ {response.id},
                        !.req[response.id] =
                           Settled([s EXCEPT !.byResponse = @ + 1])]
    ELSE cl

\* lines 136-150: the response is matched against the table
Dispatch(cl, response) ==
  IF response.id \in cl.queue
    THEN LET r == cl.req[response.id]
             s == IF response.kind = "error"
                    THEN EntryReject(r, response.v)
                    ELSE EntryResolve(r, response.v)
         IN  [cl EXCEPT !.queue = @ \ {response.id},
                        !.req[response.id] =
                           Settled([s EXCEPT !.byResponse = @ + 1])]
    ELSE cl

\* lines 116-156: one line of the chunk
ProcessMessage(cl, message) ==
  IF message = <<>> THEN cl
  ELSE IF ~StartsWithBrace(message) THEN cl
  ELSE LET response == JSONParse(message)
       IN  IF ~response.ok THEN cl
           ELSE LET logged == [cl EXCEPT !.parsed = Append(@, response)]
                IN  IF Falsy(response.id) THEN logged
                    ELSE Dispatch(logged, response)

\* a loop that a line failing JSON.parse ends (no try/catch around the parse)
RECURSIVE ProcessMessages_StopsAtBadLine(_, _)
ProcessMessages_StopsAtBadLine(cl, messages) ==
  IF messages = <<>> THEN cl
  ELSE IF StartsWithBrace(messages[1]) /\ ~JSONParse(messages[1]).ok THEN cl
  ELSE ProcessMessages_StopsAtBadLine(ProcessMessage(cl, messages[1]), Tail(messages))

\* a loop that a response without id ends (return in place of continue)
RECURSIVE ProcessMessages_ReturnsAtNoId(_, _)
ProcessMessages_ReturnsAtNoId(cl, messages) ==
  IF messages = <<>> THEN cl
  ELSE IF /\ StartsWithBrace(messages[1])
          /\ JSONParse(messages[1]).ok
          /\ Falsy(JSONParse(messages[1]).id)
         THEN ProcessMessage(cl, messages[1])
  ELSE ProcessMessages_ReturnsAtNoId(ProcessMessage(cl, messages[1]), Tail(messages))

RECURSIVE ProcessMessages(_, _)
ProcessMessages(cl, messages) ==
  IF messages = <<>> THEN cl
  ELSE ProcessMessages(ProcessMessage(cl, messages[1]), Tail(messages))

\* lines 106-161: the handler of one chunk
HandleData(cl, data) == ProcessMessages(cl, Split(Trim(data)))

ClientOf(k) == [queue |-> messageQueue[k], req |-> req[k], parsed |-> <<>>]

\* a chunk arrives on the stdout of client k
StdoutData(k, data) ==
  LET cl == HandleData(ClientOf(k), data)
  IN  /\ messageQueue' = [messageQueue EXCEPT ![k] = cl.queue]
      /\ req' = [req EXCEPT ![k] = cl.req]
      /\ UNCHANGED <<messageId, assigned, stdin>>

\* ------------------------------------------------------------ sendRequest
NewRequest(method, via) ==
  [method |-> method, via |-> via, state |-> "pending", value |-> "",
   timer |-> "armed", byResponse |-> 0, byTimer |-> 0,
   out |-> [state |-> "pending", value |-> ""]]

\* String(++this.messageId)
NextId_PreIncrement(k) == IdStr(messageId[k] + 1)

\* const id = String(this.messageId++)
NextId(k) == IdStr(messageId[k])

\* what sendRequest works on: the table, the promises and the input stream
Sender(k) == [queue |-> messageQueue[k], req |-> req[k], stdin |-> stdin[k]]

\* a promise executor without the setTimeout
ArmTimer_NoTimer(cl, id, method, via) ==
  [cl EXCEPT !.req = (id :> [NewRequest(method, via) EXCEPT !.timer = "none"]) @@ @]

\* lines 211-218: new Promise, setTimeout
ArmTimer(cl, id, method, via) ==
  [cl EXCEPT !.req = (id :> NewRequest(method, via)) @@ @]

\* lines 220-229: this.messageQueue.set(id, ...)
Register(cl, id) == [cl EXCEPT !.queue = @ \cup {id}]

\* lines 231-232: this.stdin.write(requestStr)
Write(cl, id, method) ==
  [cl EXCEPT !.stdin =
     Append(@, [id |-> id, method |-> method,
                registered |-> id \in cl.queue,
                armed |-> id \in DOMAIN cl.req /\ cl.req[id].timer = "armed"])]

\* a promise executor that writes the request first
Executor_WritesFirst(cl, id, method, via) ==
  Register(ArmTimer(Write(cl, id, method), id, method, via), id)

\* lines 211-233: the promise executor
Executor(cl, id, method, via) ==
  Write(Register(ArmTimer(cl, id, method, via), id), id, method)

\* lines 197-234: the id is taken, the timer armed, the entry registered and
\* the request written, in one synchronous run
SendRequest(k, method, via) ==
  LET id == NextId(k)
      cl == Executor(Sender(k), id, method, via)
  IN  /\ messageId[k] < MaxReq
      /\ messageId' = [messageId EXCEPT ![k] = @ + 1]
      /\ assigned' = [assigned EXCEPT ![k] = Append(@, id)]
      /\ messageQueue' = [messageQueue EXCEPT ![k] = cl.queue]
      /\ req' = [req EXCEPT ![k] = cl.req]
      /\ stdin' = [stdin EXCEPT ![k] = cl.stdin]

\* a timer callback that rejects and leaves the entry in the table
Timeout_KeepsEntry(k, id) ==
  /\ id \in DOMAIN req[k]
  /\ req[k][id].timer = "armed"
  /\ LET r == [req[k][id] EXCEPT !.timer = "fired"]
     IN  req' = [req EXCEPT ![k][id] =
                   Settled([PromiseReject(r, TimeoutMessage(r.method))
                              EXCEPT !.byTimer = @ + 1])]
  /\ UNCHANGED <<messageId, assigned, stdin, messageQueue>>

\* lines 213-218: the timer of request id of client k fires
Timeout(k, id) ==
  /\ id \in DOMAIN req[k]
  /\ req[k][id].timer = "armed"
  /\ LET r == [req[k][id] EXCEPT !.timer = "fired"]
     IN  IF id \in messageQueue[k]
           THEN /\ messageQueue' = [messageQueue EXCEPT ![k] = @ \ {id}]
                /\ req' = [req EXCEPT ![k][id] =
                     Settled([PromiseReject(r, TimeoutMessage(r.method))
                                EXCEPT !.byTimer = @ + 1])]
           ELSE /\ req' = [req EXCEPT ![k][id] = r]
                /\ UNCHANGED messageQueue
  /\ UNCHANGED <<messageId, assigned, stdin>>

\* ------------------------------------------- one client, after construction
\* what the process may write: responses to ids the client assigned, to an
\* id it never assigns, without id, with a number for id
Payloads == {"{tools:[search]}", "{}"}
Messages == {"boom", "bang"}
Tails == {Res(v) : v \in Payloads} \cup {Err(m) : m \in Messages}
RespIds == {IdStr(n) : n \in 0..MaxReq} \cup {NoId, "#1"}
Responses == {<<Open(i), t>> : i \in RespIds, t \in Tails}
Chunks ==
  {m \o <<NL>> : m \in Responses}
    \cup {<<TXT, NL, Open(i), Res("{}"), NL>> : i \in RespIds}
    \cup {<<Open(i), Res("{}"), NL, Open(i), Err("boom"), NL>> : i \in RespIds}
    \cup {<<Open("0"), Err("boom"), NL, Open("1"), Res("{}"), NL>>}

\* the method of the direct sendRequest calls of the repository
Methods == {"tools/call"}

LifeIdle ==
  /\ notionMCPServerProcess = 0
  /\ notionMCPClient = 0
  /\ notionApiKey = TRUE
  /\ proc = [p \in Clients |-> [state |-> "unspawned", kills |-> 0, exitHandlers |-> 0]]
  /\ calls = [c \in Callers |-> [pc |-> "idle", result |-> 0, client |-> 0, id |-> "", spawned |-> 0]]

ClientsFresh ==
  /\ messageId = [k \in Clients |-> 0]
  /\ messageQueue = [k \in Clients |-> {}]
  /\ req = [k \in Clients |-> <<>>]
  /\ assigned = [k \in Clients |-> <<>>]
  /\ stdin = [k \in Clients |-> <<>>]

FramerIdle ==
  /\ stream = <<>>
  /\ orig = <<>>
  /\ parsedLog = <<>>
  /\ aligned = TRUE

\* no app mention is being handled
MentionIdle ==
  /\ event = [bot |-> FALSE, thread |-> FALSE]
  /\ handler = "idle"
  /\ statusTexts = <<>>
  /\ result = ""
  /\ caught = ""
  /\ toolUpdates = 0

\* One StdioClient, client 1, from its construction (lines 96-104) on, with
\* the calls made on it, the chunks of its stdout and its timers; the
\* module-level lifecycle is left to LifeSpec.
Init == LifeIdle /\ ClientsFresh /\ FramerIdle /\ MentionIdle

\* client.listTools()
CallListTools(k) ==
  /\ SendRequest(k, "tools/list", "listTools")
  /\ UNCHANGED <<lifeVars, framerVars, mentionVars>>

\* client.getTool(namespace, name).call(params)
CallGetTool(k) ==
  /\ SendRequest(k, "tools/call", "getTool")
  /\ UNCHANGED <<lifeVars, framerVars, mentionVars>>

\* client.sendRequest(method, params)
CallSendRequest(k, method) ==
  /\ SendRequest(k, method, "sendRequest")
  /\ UNCHANGED <<lifeVars, framerVars, mentionVars>>

OnData(k, data) ==
  /\ StdoutData(k, data)
  /\ UNCHANGED <<lifeVars, framerVars, mentionVars>>

OnTimeout(k, id) ==
  /\ Timeout(k, id)
  /\ UNCHANGED <<lifeVars, framerVars, mentionVars>>

Next ==
  \/ CallListTools(1)
  \/ CallGetTool(1)
  \/ \E method \in Methods : CallSendRequest(1, method)
  \/ \E data \in Chunks : OnData(1, data)
  \/ \E id \in DOMAIN req[1] : OnTimeout(1, id)

Spec == Init /\ [][Next]_vars

\* --------------------------------------------- the framer, chunk by chunk
\* the lines the process may write
Lines ==
  { <<Open("0"), Res("{}")>>,
    <<Open("1"), Err("boom")>>,
    <<Open(NoId), Res("{}")>>,
    <<Open("0")>>,
    <<TXT>>,
    <<SP, Open("0"), Res("{}")>>,
    <<>> }

RECURSIVE Join(_)
Join(ls) == IF ls = <<>> THEN <<>> ELSE ls[1] \o <<NL>> \o Join(Tail(ls))

Streams == {Join(ls) : ls \in UNION {[1..n -> Lines] : n \in 1..MaxLines}}

\* client 1 after two getTool(...).call(...) calls, both pending
TwoPending ==
  /\ messageId = [k \in Clients |-> IF k = 1 THEN 2 ELSE 0]
  /\ messageQueue = [k \in Clients |-> IF k = 1 THEN {"0", "1"} ELSE {}]
  /\ req = [k \in Clients |->
              IF k = 1
                THEN ("0" :> NewRequest("tools/call", "getTool"))
                       @@ ("1" :> NewRequest("tools/call", "getTool"))
                ELSE <<>>]
  /\ assigned = [k \in Clients |-> IF k = 1 THEN <<"0", "1">> ELSE <<>>]
  /\ stdin = [k \in Clients |->
                IF k = 1
                  THEN << [id |-> "0", method |-> "tools/call", registered |-> TRUE, armed |-> TRUE],
                          [id |-> "1", method |-> "tools/call", registered |-> TRUE, armed |-> TRUE] >>
                  ELSE <<>>]

FramerInit ==
  /\ LifeIdle
  /\ TwoPending
  /\ stream \in Streams
  /\ orig = stream
  /\ parsedLog = <<>>
  /\ aligned = TRUE
  /\ MentionIdle

\* the next n fragments of the process's output arrive as one chunk
Feed(n) ==
  LET data == SubSeq(stream, 1, n)
  IN  /\ StdoutData(1, data)
      /\ parsedLog' = parsedLog \o HandleData(ClientOf(1), data).parsed
      /\ stream' = SubSeq(stream, n + 1, Len(stream))
      /\ aligned' = (aligned /\ data[n] = NL)
      /\ UNCHANGED <<orig, lifeVars, mentionVars>>

FramerNext == \E n \in 1..Len(stream) : Feed(n)

FramerSpec == FramerInit /\ [][FramerNext]_vars

\* ------------------------------------------------------- the lifecycle
\* what process k writes: a response to a request of the table (any other
\* chunk of Chunks leaves the state as it is)
LifeTails == {Res("{tools:[search]}"), Res("{}"), Err("boom")}
LifeChunks(k) == {<<Open(i), t, NL>> : i \in messageQueue[k], t \in LifeTails}

LifeInit ==
  /\ notionMCPServerProcess = 0
  /\ notionMCPClient = 0
  /\ notionApiKey \in BOOLEAN
  /\ proc = [p \in Clients |-> [state |-> "unspawned", kills |-> 0, exitHandlers |-> 0]]
  /\ calls = [c \in Callers |-> [pc |-> "idle", result |-> 0, client |-> 0, id |-> "", spawned |-> 0]]
  /\ ClientsFresh
  /\ FramerIdle
  /\ MentionIdle

Spawned == {p \in Clients : proc[p].state # "unspawned"}

\* the clients initNotionMCPServer has returned to a caller
Handed == {calls[c].result : c \in {d \in Callers : calls[d].pc = "returned"}} \ {0}

\* a call of initNotionMCPServer that resumes before the next event of the
\* loop: its awaited promise is already settled
Resumable(c) ==
  \/ calls[c].pc = "awaitInfo"
  \/ /\ calls[c].pc = "awaitList"
     /\ req[calls[c].client][calls[c].id].state # "pending"

MicrotaskPending == \E c \in Callers : Resumable(c)

\* a ChildProcess whose "error" event is due: it is emitted from
\* process.nextTick, before any event of the loop
ErrorPending == \E p \in Clients : proc[p].state = "failed"

\* a ChildProcess has emitted "error".  No "error" listener is registered
\* on it (lines 59-78), so the event is an uncaught exception and the Node
\* process has ended.
Crashed == \E p \in Clients : proc[p].state = "errored"

\* a shutdown that forgets the client singleton
ShutdownEffect_KeepsClient ==
  IF notionMCPServerProcess # 0
    THEN /\ proc' = [proc EXCEPT ![notionMCPServerProcess].kills = @ + 1]
         /\ notionMCPServerProcess' = 0
         /\ UNCHANGED notionMCPClient
    ELSE UNCHANGED <<proc, notionMCPServerProcess, notionMCPClient>>

\* a shutdown that kills and keeps the handle
ShutdownEffect_KeepsHandle ==
  IF notionMCPServerProcess # 0
    THEN /\ proc' = [proc EXCEPT ![notionMCPServerProcess].kills = @ + 1]
         /\ UNCHANGED <<notionMCPServerProcess, notionMCPClient>>
    ELSE UNCHANGED <<proc, notionMCPServerProcess, notionMCPClient>>

\* lines 285-292
ShutdownEffect ==
  IF notionMCPServerProcess # 0
    THEN /\ proc' = [proc EXCEPT ![notionMCPServerProcess].kills = @ + 1]
         /\ notionMCPServerProcess' = 0
         /\ notionMCPClient' = 0
    ELSE UNCHANGED <<proc, notionMCPServerProcess, notionMCPClient>>

\* shutdownNotionMCPServer(reason), called from outside (lines 298-305)
Shutdown ==
  /\ ~Crashed
  /\ ShutdownEffect
  /\ UNCHANGED <<notionApiKey, calls, clientVars, framerVars, mentionVars>>

\* lines 45-244: initNotionMCPServer up to its first await
InitCall(c) ==
  /\ ~Crashed
  /\ calls[c].pc = "idle"
  /\ IF notionMCPClient # 0
       THEN /\ calls' = [calls EXCEPT ![c].pc = "returned", ![c].result = notionMCPClient]
            /\ UNCHANGED <<notionMCPServerProcess, notionMCPClient, proc>>
       ELSE IF ~notionApiKey
         THEN /\ calls' = [calls EXCEPT ![c].pc = "threw"]
              /\ UNCHANGED <<notionMCPServerProcess, notionMCPClient, proc>>
         ELSE \E p \in Clients :
                /\ proc[p].state = "unspawned"
                /\ \A q \in Clients : q < p => proc[q].state # "unspawned"
                /\ \E launched \in BOOLEAN :
                     proc' = [proc EXCEPT ![p].state =
                                IF launched THEN "running" ELSE "failed"]
                /\ notionMCPServerProcess' = p
                /\ notionMCPClient' = p
                /\ calls' = [calls EXCEPT ![c].pc = "awaitInfo", ![c].spawned = p]
  /\ UNCHANGED <<notionApiKey, clientVars, framerVars, mentionVars>>

\* lines 245-250: after getServerInfo, listTools of the current client
InitAfterInfo(c) ==
  /\ ~Crashed
  /\ calls[c].pc = "awaitInfo"
  /\ IF notionMCPClient = 0
       THEN \* notionMCPClient.listTools() on null: caught at line 264
            /\ calls' = [calls EXCEPT ![c].pc = "threw"]
            /\ ShutdownEffect
            /\ UNCHANGED clientVars
       ELSE /\ SendRequest(notionMCPClient, "tools/list", "listTools")
            /\ calls' = [calls EXCEPT ![c].pc = "awaitList",
                                      ![c].client = notionMCPClient,
                                      ![c].id = NextId(notionMCPClient)]
            /\ UNCHANGED <<notionMCPServerProcess, notionMCPClient, proc>>
  /\ UNCHANGED <<notionApiKey, framerVars, mentionVars>>

\* const { tools } = ...; tools.map(...), tools.find(...) (lines 250-259)
\* need a tools array
HasTools(value) == value \in {"{tools:[search]}", "{tools:[]}"}

\* lines 250-279: after listTools, the rest of initNotionMCPServer
InitAfterList(c) ==
  /\ ~Crashed
  /\ calls[c].pc = "awaitList"
  /\ req[calls[c].client][calls[c].id].state # "pending"
  /\ IF ~HasTools(req[calls[c].client][calls[c].id].out.value)
       THEN \* TypeError, caught at line 264
            /\ calls' = [calls EXCEPT ![c].pc = "threw"]
            /\ ShutdownEffect
       ELSE IF notionMCPServerProcess = 0
         THEN \* notionMCPServerProcess.on(...) on null (line 271)
              /\ calls' = [calls EXCEPT ![c].pc = "threw"]
              /\ UNCHANGED <<notionMCPServerProcess, notionMCPClient, proc>>
         ELSE /\ proc' = [proc EXCEPT ![notionMCPServerProcess].exitHandlers = @ + 1]
              /\ calls' = [calls EXCEPT ![c].pc = "returned", ![c].result = notionMCPClient]
              /\ UNCHANGED <<notionMCPServerProcess, notionMCPClient>>
  /\ UNCHANGED <<notionApiKey, clientVars, framerVars, mentionVars>>

\* process p exits; its "exit" listeners run (lines 271-277).  Like the
\* arrival of a chunk and the firing of a timer this is an event of the
\* loop: it waits for the calls that resume on an already settled promise.
ProcessExit(p) ==
  /\ ~Crashed /\ ~ErrorPending
  /\ ~MicrotaskPending
  /\ proc[p].state = "running"
  /\ proc' = [proc EXCEPT ![p].state = "exited"]
  /\ IF proc[p].exitHandlers > 0
       THEN notionMCPServerProcess' = 0 /\ notionMCPClient' = 0
       ELSE UNCHANGED <<notionMCPServerProcess, notionMCPClient>>
  /\ UNCHANGED <<notionApiKey, calls, clientVars, framerVars, mentionVars>>

\* a holder of client k calls a tool (src/unnamed/part_000, lines 49-65)
\* the "error" event of ChildProcess p, which could not be launched: with
\* no listener it ends the Node process, whose "exit" listener (lines
\* 298-300) calls shutdownNotionMCPServer
SpawnError(p) ==
  /\ proc[p].state = "failed"
  /\ proc' = [q \in Clients |->
               [proc[q] EXCEPT
                  !.state = IF q = p THEN "errored" ELSE @,
                  !.kills = IF q = notionMCPServerProcess THEN @ + 1 ELSE @]]
  /\ notionMCPServerProcess' = 0
  /\ notionMCPClient' = 0
  /\ UNCHANGED <<notionApiKey, calls, clientVars, framerVars, mentionVars>>

UserCall(k) ==
  /\ ~Crashed
  /\ k \in Handed
  \* the ids left are kept for the connection checks still to be sent
  /\ messageId[k] + Cardinality({c \in Callers : calls[c].pc = "awaitInfo"}) < MaxReq
  /\ CallGetTool(k)

LifeData(k, data) ==
  /\ ~Crashed /\ ~ErrorPending
  /\ ~MicrotaskPending
  /\ k \in Spawned
  /\ OnData(k, data)

LifeTimeout(k, id) ==
  /\ ~Crashed /\ ~ErrorPending
  /\ ~MicrotaskPending
  /\ OnTimeout(k, id)

LifeNext ==
  \/ \E c \in Callers : InitCall(c)
  \/ \E c \in Callers : InitAfterInfo(c)
  \/ \E c \in Callers : InitAfterList(c)
  \/ Shutdown
  \/ \E p \in Clients : ProcessExit(p)
  \/ \E p \in Clients : SpawnError(p)
  \/ \E k \in Clients : UserCall(k)
  \/ \E k \in Clients : \E data \in LifeChunks(k) : LifeData(k, data)
  \/ \E k \in Clients : \E id \in DOMAIN req[k] : LifeTimeout(k, id)

LifeSpec == LifeInit /\ [][LifeNext]_vars

\* the ids a client can assign
Ids == {IdStr(n) : n \in 0..(MaxReq - 1)}

\* One call of initNotionMCPServer and what follows it: the calls on the
\* client, the output, exit and launch failure of the process, shutdown and
\* the timers.
LiveNext ==
  \/ InitCall("a")
  \/ InitAfterInfo("a")
  \/ InitAfterList("a")
  \/ Shutdown
  \/ \E p \in Clients : ProcessExit(p)
  \/ \E p \in Clients : SpawnError(p)
  \/ \E k \in Clients : UserCall(k)
  \/ \E k \in Clients : \E data \in LifeChunks(k) : LifeData(k, data)
  \/ \E k \in Clients : \E id \in DOMAIN req[k] : LifeTimeout(k, id)

\* The loop runs what is due: a call whose awaited promise is settled
\* resumes, a pending "error" event is emitted, an armed timer fires.
LiveSpec ==
  /\ LifeInit
  /\ [][LiveNext]_vars
  /\ WF_vars(InitAfterInfo("a")) /\ WF_vars(InitAfterList("a"))
  /\ \A p \in Clients : WF_vars(SpawnError(p))
  /\ \A k \in Clients : \A id \in Ids : WF_vars(LifeTimeout(k, id))

\* ---------------------------------------------------- handleNewAppMention
\* the texts of the status message, in place of the source's literals:
\* line 38, generateResponse line 18 and line 44, lines 49-51
InitialStatus == "processing"
ThinkingStatus == "thinking"
SearchingStatus == "searching"
ErrorText(message) == "error: " \o message

\* what getThread and generateText may throw, and what a failed
\* client.chat.update throws
ThrownMessages == {"boom", "bang"}
UpdateFailed == "update failed"
\* what generateText may return
Texts == {"answer", ""}

\* the status message after updateMessage(text): client.chat.update
\* (lines 20-26) succeeds or throws
UpdateMessage(text, ok) == IF ok THEN Append(statusTexts, text) ELSE statusTexts

MentionInit ==
  /\ LifeIdle /\ ClientsFresh /\ FramerIdle
  /\ event \in [bot : BOOLEAN, thread : BOOLEAN]
  /\ handler = "idle"
  /\ statusTexts = <<>>
  /\ result = ""
  /\ caught = ""
  /\ toolUpdates = 0

MentionFrame == UNCHANGED <<lifeVars, clientVars, framerVars, event>>

\* lines 33-38: the bot test, then updateStatusUtil posts the initial status
\* (lines 10-18): postMessage answers with a ts, without one, or throws
PostInitial ==
  /\ handler = "idle"
  /\ IF event.bot
       THEN handler' = "returned" /\ UNCHANGED statusTexts
       ELSE \E posted \in {"ts", "no ts", "throws"} :
              IF posted = "ts"
                THEN /\ statusTexts' = Append(statusTexts, InitialStatus)
                     /\ handler' = "try"
                ELSE /\ handler' = "threw"
                     /\ UNCHANGED statusTexts
  /\ UNCHANGED <<result, caught, toolUpdates>>
  /\ MentionFrame

\* lines 41-44: the thread is fetched when the event has a thread_ts
GetMessages ==
  /\ handler = "try"
  /\ IF event.thread
       THEN \/ handler' = "generateResponse" /\ UNCHANGED caught
            \/ \E m \in ThrownMessages : handler' = "catch" /\ caught' = m
       ELSE handler' = "generateResponse" /\ UNCHANGED caught
  /\ UNCHANGED <<statusTexts, result, toolUpdates>>
  /\ MentionFrame

\* generateResponse, lines 17-19: the first status update
ThinkingUpdate ==
  /\ handler = "generateResponse"
  /\ \E ok \in BOOLEAN :
       /\ statusTexts' = UpdateMessage(ThinkingStatus, ok)
       /\ IF ok THEN handler' = "generateText" /\ UNCHANGED caught
                ELSE handler' = "catch" /\ caught' = UpdateFailed
  /\ UNCHANGED <<result, toolUpdates>>
  /\ MentionFrame

\* generateResponse, lines 41-45: a searchNotion execution updates the status
ToolUpdate ==
  /\ handler = "generateText"
  /\ toolUpdates < MaxToolUpdates
  /\ toolUpdates' = toolUpdates + 1
  /\ \E ok \in BOOLEAN :
       /\ statusTexts' = UpdateMessage(SearchingStatus, ok)
       /\ IF ok THEN UNCHANGED <<handler, caught>>
                ELSE handler' = "catch" /\ caught' = UpdateFailed
  /\ UNCHANGED result
  /\ MentionFrame

\* line 45: generateResponse returns the text, or generateText throws
GenerateText ==
  /\ handler = "generateText"
  /\ \/ \E text \in Texts : result' = text /\ handler' = "update" /\ UNCHANGED caught
     \/ \E m \in ThrownMessages : handler' = "catch" /\ caught' = m /\ UNCHANGED result
  /\ UNCHANGED <<statusTexts, toolUpdates>>
  /\ MentionFrame

\* lines 46-53: the catch block writes the error text; a failure of that
\* update is not caught
Catch ==
  /\ handler = "catch"
  /\ \E ok \in BOOLEAN :
       /\ statusTexts' = UpdateMessage(ErrorText(caught), ok)
       /\ handler' = IF ok THEN "update" ELSE "threw"
  /\ UNCHANGED <<result, caught, toolUpdates>>
  /\ MentionFrame

\* lines 55-59: updateMessage(result), its failure caught and logged
FinalUpdate ==
  /\ handler = "update"
  /\ \E ok \in BOOLEAN : statusTexts' = UpdateMessage(result, ok)
  /\ handler' = "returned"
  /\ UNCHANGED <<result, caught, toolUpdates>>
  /\ MentionFrame

MentionNext ==
  \/ PostInitial
  \/ GetMessages
  \/ ThinkingUpdate
  \/ ToolUpdate
  \/ GenerateText
  \/ Catch
  \/ FinalUpdate

MentionSpec == MentionInit /\ [][MentionNext]_vars

\* ------------------------------------------------------------ the claims
OthersUnchanged(k, id) ==
  /\ DOMAIN req'[k] = DOMAIN req[k]
  /\ \A j \in DOMAIN req[k] \ {id} : req'[k][j] = req[k][j]

\* C1: a response whose id is a key of the pending table settles exactly
\* that request and removes its entry; a response whose id is no key of the
\* table (a later duplicate among them) changes neither the table nor any
\* request.
C1_MatchingResponseSettlesThatRequest ==
  [][\A i \in RespIds, t \in Tails :
       OnData(1, <<Open(i), t, NL>>) =>
         IF i \in messageQueue[1]
           THEN /\ req[1][i].state = "pending"
                /\ req'[1][i].state # "pending"
                /\ req'[1][i].byResponse = 1
                /\ messageQueue'[1] = messageQueue[1] \ {i}
                /\ OthersUnchanged(1, i)
           ELSE UNCHANGED <<messageQueue, req>>]_vars

\* a request settled by its response and gone from the table while another
\* request is still pending
C1_Witness ==
  \E i \in DOMAIN req[1], j \in DOMAIN req[1] :
    /\ i # j
    /\ req[1][i].byResponse = 1
    /\ i \notin messageQueue[1]
    /\ j \in messageQueue[1]

\* C2: the promise of a sendRequest call is settled at most once, by the
\* response or by the timer and never by both: settled by the response, its
\* timer is cancelled and it keeps the response's outcome; settled by the
\* timer, its entry is gone and no response has touched it.
C2_SettledOnceByOneCause ==
  \A i \in DOMAIN req[1] :
    LET r == req[1][i]
    IN  /\ r.byResponse + r.byTimer <= 1
        /\ (r.state = "pending") <=> (r.byResponse + r.byTimer = 0)
        /\ (r.state = "pending") <=> (i \in messageQueue[1])
        /\ r.byResponse = 1 => r.timer = "cleared" /\ r.byTimer = 0
        /\ r.byTimer = 1 =>
             r.timer = "fired" /\ r.state = "rejected" /\ r.value = TimeoutMessage(r.method)

\* one request settled by its response and another by its timer
C2_Witness ==
  \E i \in DOMAIN req[1], j \in DOMAIN req[1] :
    /\ req[1][i].byResponse = 1 /\ req[1][i].timer = "cleared"
    /\ req[1][j].byTimer = 1 /\ req[1][j].timer = "fired"

\* C3: the ids sendRequest assigns on one client are "0", "1", "2", ... in
\* call order, so no two calls share an id.
C3_IdsUniqueAndIncreasing ==
  LET ids == assigned[1]
      expected == <<"0", "1", "2", "3", "4", "5">>
  IN  /\ Len(ids) <= Len(expected)
      /\ \A n \in 1..Len(ids) : ids[n] = expected[n]
      /\ \A m \in 1..Len(ids), n \in 1..Len(ids) : m # n => ids[m] # ids[n]
      /\ DOMAIN req[1] = {ids[n] : n \in 1..Len(ids)}
      /\ messageQueue[1] \subseteq DOMAIN req[1]

\* two calls have been made
C3_Witness == Len(assigned[1]) >= 2 /\ Cardinality(messageQueue[1]) >= 2

\* C4: when the timer of a request fires and no response was dispatched for
\* it, the request is rejected with the timeout error naming its method and
\* its id is not in the table afterwards.
C4_TimeoutRejectsAndRemoves ==
  [][\A i \in DOMAIN req[1] :
       (OnTimeout(1, i) /\ req[1][i].byResponse = 0) =>
         /\ req'[1][i].state = "rejected"
         /\ req[1][i].method = "tools/list" =>
              req'[1][i].value = "Request timed out after 10 seconds: tools/list"
         /\ req[1][i].method = "tools/call" =>
              req'[1][i].value = "Request timed out after 10 seconds: tools/call"
         /\ i \notin messageQueue'[1]
         /\ OthersUnchanged(1, i)]_vars

\* a request rejected by its timer
C4_Witness ==
  \E i \in DOMAIN req[1] :
    /\ req[1][i].byTimer = 1
    /\ req[1][i].state = "rejected"
    /\ i \notin messageQueue[1]

\* C5: a response matching a pending request rejects the call with the
\* remote message when it carries an error and resolves it with the result
\* otherwise; sendRequest and getTool(...).call hand that outcome to their
\* caller.
C5_ErrorRejectsResultResolves ==
  [][\A i \in RespIds, t \in Tails :
       (OnData(1, <<Open(i), t, NL>>) /\ i \in messageQueue[1]) =>
         LET r == req'[1][i]
             want == IF t.t = "error" THEN "rejected" ELSE "resolved"
         IN  /\ r.state = want
             /\ r.value = t.v
             /\ r.via \in {"sendRequest", "getTool"} =>
                  r.out = [state |-> want, value |-> t.v]]_vars

\* a tool call rejected with the remote message and one resolved with a result
C5_Witness ==
  \E i \in DOMAIN req[1], j \in DOMAIN req[1] :
    /\ req[1][i].via = "getTool"
    /\ req[1][i].out = [state |-> "rejected", value |-> "boom"]
    /\ req[1][j].out = [state |-> "resolved", value |-> "{}"]
    /\ req[1][j].via # "listTools"

\* C6: listTools never rejects: when its sendRequest rejects it returns the
\* empty tool list; a rejection of any other call reaches the caller
\* unchanged.
C6_ListToolsSwallowsOthersPropagate ==
  \A i \in DOMAIN req[1] :
    LET r == req[1][i]
    IN  /\ r.via = "listTools" => r.out.state # "rejected"
        /\ (r.via = "listTools" /\ r.state = "rejected") =>
             r.out = [state |-> "resolved", value |-> "{tools:[]}"]
        /\ (r.via # "listTools" /\ r.state = "rejected") =>
             r.out = [state |-> "rejected", value |-> r.value]

\* listTools over a remote error and over a timeout, and a rejected tool call
C6_Witness ==
  \E i \in DOMAIN req[1], j \in DOMAIN req[1] :
    /\ req[1][i].via = "listTools" /\ req[1][i].state = "rejected"
    /\ req[1][i].out.state = "resolved"
    /\ req[1][j].via = "getTool" /\ req[1][j].out.state = "rejected"

\* the responses a handler that buffered incomplete lines would parse from
\* the whole output: its lines that start with a brace and parse
GoodLine(line) == StartsWithBrace(line) /\ JSONParse(line).ok

RECURSIVE ParseAll(_)
ParseAll(ls) == IF ls = <<>> THEN <<>> ELSE <<JSONParse(ls[1])>> \o ParseAll(Tail(ls))

GoodResponses(text) == ParseAll(SelectSeq(Split(text), GoodLine))

RECURSIVE IsSubseq(_, _)
IsSubseq(a, b) ==
  IF a = <<>> THEN TRUE
  ELSE IF b = <<>> THEN FALSE
  ELSE IF a[1] = b[1] THEN IsSubseq(Tail(a), Tail(b))
  ELSE IsSubseq(a, Tail(b))

\* C7: however the output is cut into chunks, the responses parsed are those
\* of the whole output; a message cut in two is parsed once.
C7_FramingIndependentOfChunks ==
  stream = <<>> =>
    /\ parsedLog = HandleData(ClientOf(1), orig).parsed
    /\ (Len(Split(orig)) = 2 /\ GoodLine(Split(orig)[1])) => Len(parsedLog) = 1

\* what a run of chunks that all end at the end of a line has done when the
\* output is used up
AlignedRunDone ==
  (stream = <<>> /\ aligned) =>
    /\ IsSubseq(GoodResponses(orig), parsedLog)
    /\ \A n \in 1..Len(parsedLog) :
         parsedLog[n].id \in DOMAIN req[1] => req[1][parsedLog[n].id].state # "pending"
    /\ \A i \in DOMAIN req[1] :
         /\ req[1][i].state = "rejected" =>
              \E n \in 1..Len(parsedLog) :
                parsedLog[n].id = i /\ parsedLog[n].kind = "error"
         /\ req[1][i].state # "pending" =>
              \E n \in 1..Len(parsedLog) : parsedLog[n].id = i

\* what the handler does with one chunk, however the output was cut
ChunkDone ==
  LET data == SubSeq(stream, 1, Len(stream) - Len(stream'))
  IN  parsedLog' = parsedLog \o ParseAll(SelectSeq(Split(Trim(data)), GoodLine))

\* C8: a line that does not start with a brace or fails to parse is skipped
\* and nothing else.  Of every chunk, each line that starts with a brace and
\* parses is parsed, in order, whatever lines surround it; and when every
\* chunk ends at the end of a line, every such line of the whole output has
\* been parsed and dispatched, and a request is rejected only by an error
\* response carrying its id.
C8_BadLineIsSkippedOnly == [][ChunkDone]_vars /\ []AlignedRunDone

BadLine(line) == line # <<>> /\ ~GoodLine(line)

\* a valid line, a bad line and a valid line have been delivered, the bad
\* line not alone in its chunk, and both valid lines were dispatched
C8_Witness ==
  /\ stream = <<>> /\ aligned
  /\ LET ls == Split(orig)
     IN  /\ Len(ls) >= 3
         /\ GoodLine(ls[1]) /\ BadLine(ls[2]) /\ GoodLine(ls[3])
         /\ JSONParse(ls[3]).id = "1"
  /\ Len(parsedLog) = 2
  /\ req[1]["0"].state = "resolved"
  /\ req[1]["1"].state = "rejected"

\* process p is running and no kill() was sent, and this step kills it or
\* is its exit
Closes(p) ==
  /\ proc[p].state = "running" /\ proc[p].kills = 0
  /\ proc'[p].kills > 0 \/ proc'[p].state = "exited"

\* C9: when shutdown is called or the process exits, every request then in
\* the pending table of its client is rejected at that step.
C9_TransportCloseRejectsPending ==
  [][\A p \in Clients :
       Closes(p) =>
         \A i \in messageQueue[p] :
           req'[p][i].state = "rejected" /\ i \notin messageQueue'[p]]_vars

\* C10: a process that has exited without a kill() is referenced neither by
\* the process handle nor by the client singleton.
C10_ExitClearsSingleton ==
  \A p \in Clients :
    (proc[p].state = "exited" /\ proc[p].kills = 0) =>
      notionMCPServerProcess # p /\ notionMCPClient # p

\* this step is the return of call c of initNotionMCPServer
Returns(c) == calls[c].pc # "returned" /\ calls'[c].pc = "returned"

\* this step calls shutdownNotionMCPServer with a process handle set
ShutsDown ==
  notionMCPServerProcess # 0 /\ proc'[notionMCPServerProcess].kills > proc[notionMCPServerProcess].kills

\* C11: a shutdown clears the handle and the singleton, so the next
\* initNotionMCPServer call spawns a process that was not spawned before and
\* constructs a client with an empty table; a call returns the singleton of
\* the moment, never a client whose process was shut down, and does not
\* spawn while a singleton is set.
C11_ShutdownThenFreshClient ==
  [][/\ ShutsDown => notionMCPServerProcess' = 0 /\ notionMCPClient' = 0
     /\ \A c \in Callers :
          /\ (InitCall(c) /\ notionMCPClient = 0 /\ notionApiKey) =>
               /\ notionMCPClient' # 0
               /\ notionMCPServerProcess' = notionMCPClient'
               /\ proc[notionMCPClient'].state = "unspawned"
               /\ proc'[notionMCPClient'].state \in {"running", "failed"}
               /\ messageQueue[notionMCPClient'] = {}
               /\ messageId[notionMCPClient'] = 0
          /\ (InitCall(c) /\ notionMCPClient # 0) =>
               /\ calls'[c].result = notionMCPClient
               /\ UNCHANGED <<proc, notionMCPClient, notionMCPServerProcess>>
          /\ Returns(c) =>
               /\ calls'[c].result = notionMCPClient'
               /\ calls'[c].result # 0
               /\ proc'[calls'[c].result].kills = 0]_vars

\* process 1 was shut down and a later call has returned client 2
C11_Witness ==
  /\ proc[1].kills > 0
  /\ notionMCPClient = 2
  /\ \E c \in Callers : calls[c].pc = "returned" /\ calls[c].result = 2

\* the connection check of client k has ended well: a call that awaited
\* listTools on k has returned
Checked(k) == \E d \in Callers : calls[d].pc = "returned" /\ calls[d].client = k

\* C12: a caller holds a client only once the connection check of that
\* client has ended well.
C12_ClientHandedOnlyAfterCheck ==
  \A c \in Callers :
    (calls[c].pc = "returned" /\ calls[c].result # 0) => Checked(calls[c].result)

C14_SpawnFailureSurfaces ==
  \A c \in Callers :
    (calls[c].spawned # 0 /\ proc[calls[c].spawned].state = "errored") =>
      /\ calls[c].pc = "threw"
      /\ notionMCPServerProcess = 0
      /\ notionMCPClient = 0

\* C15: a response without id, or whose id is no key of the table when its
\* turn comes, changes neither the table nor any request; the responses
\* after it in the chunk are still parsed and dispatched.  So a chunk
\* settles exactly the requests of the table that a response of the chunk
\* names, each by the first such response, and leaves every other request
\* and entry alone.
C15_UnknownOrMissingIdDropped ==
  [][/\ ChunkDone
     /\ DOMAIN req'[1] = DOMAIN req[1]
     /\ \A i \in DOMAIN req[1] :
          LET Hits == {n \in (Len(parsedLog) + 1)..Len(parsedLog') : parsedLog'[n].id = i}
          IN  IF i \in messageQueue[1] /\ Hits # {}
                THEN LET first == parsedLog'[CHOOSE n \in Hits : \A m \in Hits : n <= m]
                     IN  /\ i \notin messageQueue'[1]
                         /\ req'[1][i].state =
                              IF first.kind = "error" THEN "rejected" ELSE "resolved"
                         /\ req'[1][i].value = first.v
                ELSE /\ req'[1][i] = req[1][i]
                     /\ (i \in messageQueue'[1]) <=> (i \in messageQueue[1])]_vars

\* a response without id and a response to a request settled before it were
\* parsed and dropped, and the response after them rejected request "1"
C15_Witness ==
  /\ stream = <<>>
  /\ Len(parsedLog) = 3
  /\ Falsy(parsedLog[1].id)
  /\ parsedLog[2].id = "1" /\ parsedLog[2].kind = "error"
  /\ parsedLog[3].id = "1" /\ parsedLog[3].kind = "error"
  /\ req[1]["1"].state = "rejected" /\ req[1]["1"].byResponse = 1
  /\ req[1]["0"].state = "pending" /\ "0" \in messageQueue[1]

\* the ids sendRequest has assigned on client k
Sent(k) == {assigned[k][n] : n \in 1..Len(assigned[k])}

\* C17: the table of a client holds exactly the ids sent on it and not yet
\* settled; an id enters it in the sendRequest call that assigns it and
\* leaves it in the step that settles its request, by a response or by its
\* timer; when all are settled the table is empty.
C17_TableIsSentAndUnsettled ==
  /\ [](\A k \in Clients :
          /\ DOMAIN req[k] = Sent(k)
          /\ messageQueue[k] = {i \in Sent(k) : req[k][i].state = "pending"})
  /\ [][\A k \in Clients :
          /\ \A i \in messageQueue'[k] \ messageQueue[k] :
               /\ i = NextId(k)
               /\ assigned'[k] = Append(assigned[k], i)
          /\ \A i \in messageQueue[k] \ messageQueue'[k] :
               /\ req[k][i].state = "pending"
               /\ req'[k][i].state # "pending"
               /\ req'[k][i].byResponse + req'[k][i].byTimer = 1]_vars

\* two requests were sent on a client, one settled by a response and one by
\* its timer, and the table is empty
C17_Witness ==
  \E k \in Clients :
    /\ Len(assigned[k]) = 2
    /\ messageQueue[k] = {}
    /\ \E i, j \in Sent(k) : req[k][i].byResponse = 1 /\ req[k][j].byTimer = 1

\* C18: every process that is running and was not sent kill() is the one the
\* handle references, paired with the current singleton.
C18_RunningProcessIsTheReferenced ==
  \A p \in Clients :
    (proc[p].state = "running" /\ proc[p].kills = 0) =>
      (notionMCPServerProcess = p /\ notionMCPClient = p)

\* C19: every request written to stdin was written with its entry in the
\* table and its timer armed, and its id stays in the table until its
\* request is settled; the requests written are those assigned, in order.
C19_RegisteredBeforeWritten ==
  \A k \in Clients :
    /\ Len(stdin[k]) = Len(assigned[k])
    /\ \A n \in 1..Len(stdin[k]) :
         LET w == stdin[k][n]
         IN  /\ w.id = assigned[k][n]
             /\ w.registered
             /\ w.armed
             /\ w.id \in messageQueue[k] \/ req[k][w.id].state # "pending"

\* two requests are on the wire of a client: one was answered and resolved,
\* the other is still in the table
C19_Witness ==
  \E k \in Clients :
    /\ Len(stdin[k]) = 2
    /\ req[k][stdin[k][1].id].byResponse = 1
    /\ stdin[k][2].id \in messageQueue[k]

\* C16: every request sent is settled in the end, whether or not the
\* process answers, exits or is shut down, as long as the Node process runs
\* and its timers fire.
C16_EveryRequestSettles ==
  \A k \in Clients : \A id \in Ids :
    (id \in DOMAIN req[k] /\ req[k][id].state = "pending")
      ~> (Crashed \/ (id \in DOMAIN req[k] /\ req[k][id].state # "pending"))

\* two requests of a process that was shut down and has exited were
\* rejected by their timers
C16_Witness ==
  \E k \in Clients : \E i, j \in DOMAIN req[k] :
    /\ req[k][i].byTimer = 1 /\ req[k][j].byTimer = 1 /\ i # j
    /\ proc[k].state = "exited" /\ proc[k].kills = 1

\* getThread or generateResponse threw
Failed == caught # ""

\* C20: for an event not sent by a bot the first text of the status message
\* is the initial status; when getThread or generateResponse threw, the
\* handler does not throw once the error text is written, and when it has
\* returned the error text is the last text written to the status message.
C20_ErrorTextStaysLast ==
  /\ statusTexts # <<>> => (~event.bot /\ statusTexts[1] = InitialStatus)
  /\ (Failed /\ handler = "threw") =>
       \A n \in 1..Len(statusTexts) : statusTexts[n] # ErrorText(caught)
  /\ (Failed /\ handler = "returned") =>
       statusTexts[Len(statusTexts)] = ErrorText(caught)

====
